---- MODULE Spec2Model ----
(***************************************************************************)
(* The chat backend drafts of achat-by-AI over a key-value store           *)
(* (env.CHAT_KV):                                                          *)
(*   "main"  src/worker.js lines 1-296    (room records, 7-day window)     *)
(*   "incr"  src/unnamed/part_000         (derived room ids, cursor fetch) *)
(*   "auth"  src/worker.js lines 297-411  (combined /api/auth, status:)    *)
(* Strings are sequences of UTF-16 code units.  A request handler is a     *)
(* process that takes one step per awaited KV operation.  Times are in     *)
(* milliseconds, counted from the start of a UTC day.                      *)
(***************************************************************************)
EXTENDS Integers, Sequences, FiniteSets, TLC

VARIABLES
  draft,     \* which draft is deployed
  clock,     \* Date.now()
  users,     \* KV keys user:<name>
  active,    \* KV keys active:<name>, each with its expiry time
  online,    \* KV keys status:<name> (auth draft), each with its expiry time
  msgs,      \* KV keys messages:<room>:<day>
  rooms,     \* KV keys room:<id>
  pc,        \* per request slot: position in its handler
  req,       \* per request slot: the request being handled (and its `now`)
  loc,       \* per request slot: handler locals read from the store
  resp,      \* per request slot: the response returned
  appended,  \* history: every message pushed per partition, in write order
  nsent,     \* history: number of messages created so far
  refreshed, \* history: per user, when its presence key was last written
  received,  \* polling client: the messages it has received so far, in order
  rkArgs,    \* room-id derivation: the four usernames it is applied to
  rkOut      \* room-id derivation: the derived ids

vars == <<draft, clock, users, active, online, msgs, rooms, pc, req, loc, resp,
          appended, nsent, refreshed, received, rkArgs, rkOut>>

----------------------------------------------------------------------------
(* Strings *)

ChUnderscore == 95

\* "public"
Public == <<112, 117, 98, 108, 105, 99>>
\* "private:"
PrivatePrefix == <<112, 114, 105, 118, 97, 116, 101, 58>>
\* an absent (undefined / null / empty) request field: falsy in every test the code makes
Absent == <<>>

Truthy(s) == s # Absent

\* String comparison of Array.prototype.sort with no comparator: by code unit,
\* a proper prefix first.
StrLess(s, t) ==
  \E i \in 1..(Len(t)) :
     /\ \A j \in 1..(i - 1) : j <= Len(s) /\ s[j] = t[j]
     /\ \/ i > Len(s)
        \/ i <= Len(s) /\ s[i] < t[i]

Sort2Unsorted(x, y) == <<x, y>>

\* [x, y].sort()
Sort2(x, y) == IF StrLess(y, x) THEN <<y, x>> ELSE <<x, y>>

\* function getRoomKey(user1, user2)
getRoomKey(user1, user2) ==
  Sort2(user1, user2)[1] \o <<ChUnderscore>> \o Sort2(user1, user2)[2]

\* part_000: `private:${sortedUsers[0]}_${sortedUsers[1]}`
messageRoomId(from, to) ==
  IF Truthy(to)
    THEN PrivatePrefix \o Sort2(from, to)[1] \o <<ChUnderscore>> \o Sort2(from, to)[2]
    ELSE Public

\* /^[a-zA-Z0-9_-]{2,20}$/
UsernameChars == (48..57) \cup (65..90) \cup (97..122) \cup {95, 45}
UsernameMinLen == 2
UsernameMaxLen == 20
ValidUsername(s) ==
  /\ Len(s) >= UsernameMinLen
  /\ Len(s) <= UsernameMaxLen
  /\ \A i \in 1..Len(s) : s[i] \in UsernameChars

\* s.slice(0, n)
SliceTo(s, n) == SubSeq(s, 1, IF Len(s) < n THEN Len(s) ELSE n)

\* s.slice(-n), n > 0
SliceLast(s, n) == IF Len(s) <= n THEN s ELSE SubSeq(s, Len(s) - n + 1, Len(s))

----------------------------------------------------------------------------
(* Room-id derivation applied to bounded usernames *)

MaxNameLen == 3
\* '_' and 'a'
NameAlphabet == {95, 97}
Names ==
  UNION { [1..n -> NameAlphabet] : n \in UsernameMinLen..MaxNameLen }

\* Applies both derivations to (a, b), (b, a) and (c, d):
\* rkOut = <<getRoomKey ab, ba, cd, messageRoomId ab, ba, cd>>
Derive ==
  /\ rkArgs # << >>
  /\ rkOut = << >>
  /\ rkOut' = << getRoomKey(rkArgs[1], rkArgs[2]),
                 getRoomKey(rkArgs[2], rkArgs[1]),
                 getRoomKey(rkArgs[3], rkArgs[4]),
                 messageRoomId(rkArgs[1], rkArgs[2]),
                 messageRoomId(rkArgs[2], rkArgs[1]),
                 messageRoomId(rkArgs[3], rkArgs[4]) >>
  /\ UNCHANGED <<rkArgs, draft, clock, users, active, online, msgs, rooms,
                 pc, req, loc, resp, appended, nsent, refreshed, received>>

----------------------------------------------------------------------------
(* The key-value store *)

EmptyMap == << >>
Has(m, k) == k \in DOMAIN m
Put(m, k, v) == [x \in (DOMAIN m) \cup {k} |-> IF x = k THEN v ELSE m[x]]
\* a delete that removes nothing
DelNothing(m, k) == m
\* env.CHAT_KV.delete(key)
Del(m, k) == [x \in (DOMAIN m) \ {k} |-> m[x]]
\* get(key, 'json') || []
GetList(m, k) == IF Has(m, k) THEN m[k] ELSE << >>

\* expirationTtl: 300 (seconds)
TtlSeconds == 300
TtlMs == TtlSeconds * 1000
\* 86400000 ms per UTC day
DayMs == 86400000
\* new Date(t).toISOString().split('T')[0]: the UTC calendar day of t, which the
\* date string names one-to-one; days are numbered from the day of time 0.
DayOf(t) == t \div DayMs

\* a key written with expirationTtl at time t is gone from t + TtlMs on
Expiring(value, t) == [value |-> value, expires |-> t + TtlMs]
Unexpired(m, t) == [k \in {x \in DOMAIN m : t < m[x].expires} |-> m[k]]

\* Scaled lengths: the model keeps MaxStored messages per partition where the
\* code keeps 2000 (slice(-2000)), BodyMax and PreviewMax characters where the
\* code keeps 1000 and 50 (message.slice(0, 1000), message.slice(0, 50)), and
\* returns FetchLimit messages where the code returns 200 (slice(-200)).
MaxStored == 2
BodyMax == 3
PreviewMax == 2
FetchLimit == 2
\* for (let i = 0; i < 7; i++)
WindowDays == 7
\* password.length < 64
PasswordMin == 64

----------------------------------------------------------------------------
(* Request slots *)

NumProcs == 2
Procs == 1..NumProcs

NoReq == [op |-> "none"]
NoLoc == [none |-> TRUE]
NoResp == [status |-> 0, data |-> << >>]

Idle(p) == pc[p] \in {"idle", "done"}

\* the handler returns jsonResponse(data, status)
Respond(p, r, status, data) ==
  /\ pc' = [pc EXCEPT ![p] = "done"]
  /\ req' = [req EXCEPT ![p] = r]
  /\ loc' = [loc EXCEPT ![p] = NoLoc]
  /\ resp' = [resp EXCEPT ![p] = [status |-> status, data |-> data]]

\* the handler awaits its next store operation
Goto(p, r, label, l) ==
  /\ pc' = [pc EXCEPT ![p] = label]
  /\ req' = [req EXCEPT ![p] = r]
  /\ loc' = [loc EXCEPT ![p] = l]
  /\ resp' = [resp EXCEPT ![p] = NoResp]

\* the store is empty and no request is in flight
Fresh ==
  /\ clock = 0
  /\ users = EmptyMap
  /\ active = EmptyMap
  /\ online = EmptyMap
  /\ msgs = EmptyMap
  /\ rooms = EmptyMap
  /\ pc = [p \in Procs |-> "idle"]
  /\ req = [p \in Procs |-> NoReq]
  /\ loc = [p \in Procs |-> NoLoc]
  /\ resp = [p \in Procs |-> NoResp]
  /\ appended = EmptyMap
  /\ nsent = 0
  /\ refreshed = EmptyMap
  /\ received = << >>

\* Time passes; the store drops the keys whose TTL has run out.
Tick(delta) ==
  /\ clock' = clock + delta
  /\ active' = Unexpired(active, clock + delta)
  /\ online' = Unexpired(online, clock + delta)
  /\ UNCHANGED <<draft, users, msgs, rooms, pc, req, loc, resp, appended, nsent,
                 received, rkArgs, rkOut, refreshed>>

----------------------------------------------------------------------------
(* main and incr drafts: POST /api/active *)

\* now.toString(): a non-empty string that names the number
NumStr(n) == <<n>>

\* await env.CHAT_KV.get(`active:${from}`)
GetActive(from) == IF Has(active, from) /\ clock < active[from].expires
                     THEN active[from].value ELSE Absent

\* the same put with twice the TTL
PutActiveTtl600(username, now) ==
  Put(active, username, [value |-> NumStr(now), expires |-> clock + 2 * TtlMs])

\* put(`active:${username}`, now.toString(), { expirationTtl: 300 })
PutActive(username, now) == Put(active, username, Expiring(NumStr(now), clock))

Active(p, username) ==
  /\ Idle(p)
  /\ draft \in {"main", "incr"}
  /\ LET r == [op |-> "active", now |-> clock, username |-> username]
     IN IF ~Truthy(username)
          THEN /\ Respond(p, r, 400, << >>)
               /\ UNCHANGED <<active, refreshed>>
          ELSE /\ active' = PutActive(username, clock)
               /\ refreshed' = Put(refreshed, username, clock)
               /\ Respond(p, r, 200, << >>)
  /\ UNCHANGED <<draft, clock, users, online, msgs, rooms, appended, nsent, received, rkArgs, rkOut>>

----------------------------------------------------------------------------
(* main draft: POST /api/send *)

\* a handler that lets every sender through
NotLoggedInNever(lastActive) == FALSE

\* if (!lastActive) return 403
NotLoggedIn(lastActive) == ~Truthy(lastActive)

\* const newMessage = { id, from, to: to || null, roomId: roomId || 'public', ... }
\* the Math.random suffix of the id is taken to be a fresh value
NewMessage(r, rnd) ==
  [ id |-> <<r.from, r.now, rnd>>,
    from |-> r.from,
    to |-> r.to,
    roomId |-> IF Truthy(r.roomId) THEN r.roomId ELSE Public,
    message |-> SliceTo(r.message, BodyMax),
    time |-> r.now ]

\* the key with the day taken when the key is built: new Date() for new Date(now)
DayKeyToday(r) == << IF Truthy(r.roomId) THEN r.roomId ELSE Public, DayOf(clock) >>

\* const messageKey = roomId || 'public'; dayKey = `messages:${messageKey}:${day}`
DayKey(r) == << IF Truthy(r.roomId) THEN r.roomId ELSE Public, DayOf(r.now) >>

\* a trim that keeps the oldest: slice(0, 2000)
PushTrimmedOldest(existingMessages, newMessage) ==
  SliceTo(Append(existingMessages, newMessage), MaxStored)

\* existingMessages.push(newMessage); existingMessages.slice(-2000)
PushTrimmed(existingMessages, newMessage) ==
  SliceLast(Append(existingMessages, newMessage), MaxStored)

\* if (to && to !== from)
IsPrivate(r) == Truthy(r.to) /\ r.to # r.from

\* roomInfo, with created taken from the record read when there was one
RoomInfo(r, hasExisting, existingRoom) ==
  [ id |-> getRoomKey(r.from, r.to),
    participants |-> Sort2(r.from, r.to),
    lastMessage |-> [ content |-> SliceTo(r.message, PreviewMax),
                      time |-> r.now,
                      from |-> r.from ],
    created |-> IF hasExisting THEN existingRoom.created ELSE r.now ]

\* the same handler with the presence refresh moved before the presence check
SendBeginRefreshFirst(p, from, message, to, roomId) ==
  /\ Idle(p)
  /\ draft = "main"
  /\ LET r == [op |-> "send", now |-> clock, from |-> from, message |-> message,
               to |-> to, roomId |-> roomId]
         lastActive == GetActive(from)
     IN IF ~Truthy(from) \/ ~Truthy(message)
          THEN Respond(p, r, 400, << >>) /\ UNCHANGED active
          ELSE /\ active' = PutActive(from, clock)
               /\ IF NotLoggedIn(lastActive)
                    THEN Respond(p, r, 403, << >>)
                    ELSE Goto(p, r, "send_refresh", [lastActive |-> lastActive])
  /\ UNCHANGED <<draft, clock, users, online, msgs, rooms, appended, nsent,
                 received, rkArgs, rkOut, refreshed>>

SendBegin(p, from, message, to, roomId) ==
  /\ Idle(p)
  /\ draft = "main"
  /\ LET r == [op |-> "send", now |-> clock, from |-> from, message |-> message,
               to |-> to, roomId |-> roomId]
         lastActive == GetActive(from)
     IN IF ~Truthy(from) \/ ~Truthy(message)
          THEN Respond(p, r, 400, << >>)
          ELSE IF NotLoggedIn(lastActive)
            THEN Respond(p, r, 403, << >>)
            ELSE Goto(p, r, "send_refresh", [lastActive |-> lastActive])
  /\ UNCHANGED <<draft, clock, users, active, online, msgs, rooms, appended, nsent,
                 received, rkArgs, rkOut, refreshed>>

SendRefresh(p) ==
  /\ pc[p] = "send_refresh"
  /\ draft = "main"
  /\ active' = PutActive(req[p].from, req[p].now)
  /\ refreshed' = Put(refreshed, req[p].from, clock)
  /\ nsent' = nsent + 1
  /\ Goto(p, req[p], "send_read",
          [lastActive |-> loc[p].lastActive, newMessage |-> NewMessage(req[p], nsent + 1)])
  /\ UNCHANGED <<draft, clock, users, online, msgs, rooms, appended, received, rkArgs, rkOut>>

\* the same step without the read: the partition is taken to be empty
SendReadNothing(p) ==
  /\ pc[p] = "send_read"
  /\ draft = "main"
  /\ Goto(p, req[p], "send_write",
          [lastActive |-> loc[p].lastActive, newMessage |-> loc[p].newMessage,
           existingMessages |-> << >>])
  /\ UNCHANGED <<draft, clock, users, active, online, msgs, rooms, appended, nsent,
                 received, rkArgs, rkOut, refreshed>>

SendRead(p) ==
  /\ pc[p] = "send_read"
  /\ draft = "main"
  /\ Goto(p, req[p], "send_write",
          [lastActive |-> loc[p].lastActive, newMessage |-> loc[p].newMessage,
           existingMessages |-> GetList(msgs, DayKey(req[p]))])
  /\ UNCHANGED <<draft, clock, users, active, online, msgs, rooms, appended, nsent,
                 received, rkArgs, rkOut, refreshed>>

SendWrite(p) ==
  /\ pc[p] = "send_write"
  /\ draft = "main"
  /\ msgs' = Put(msgs, DayKey(req[p]),
                 PushTrimmed(loc[p].existingMessages, loc[p].newMessage))
  /\ appended' = Put(appended, DayKey(req[p]),
                     Append(GetList(appended, DayKey(req[p])), loc[p].newMessage))
  /\ IF IsPrivate(req[p])
       THEN Goto(p, req[p], "send_room_read",
                 [lastActive |-> loc[p].lastActive, newMessage |-> loc[p].newMessage])
       ELSE Respond(p, req[p], 201, <<loc[p].newMessage.id>>)
  /\ UNCHANGED <<draft, clock, users, active, online, rooms, nsent, received, rkArgs, rkOut, refreshed>>

SendRoomRead(p) ==
  /\ pc[p] = "send_room_read"
  /\ draft = "main"
  /\ LET roomKey == getRoomKey(req[p].from, req[p].to)
     IN Goto(p, req[p], "send_room_write",
             [lastActive |-> loc[p].lastActive, newMessage |-> loc[p].newMessage,
              hasExisting |-> Has(rooms, roomKey),
              existingRoom |-> IF Has(rooms, roomKey) THEN rooms[roomKey]
                                                      ELSE [created |-> 0]])
  /\ UNCHANGED <<draft, clock, users, active, online, msgs, rooms, appended, nsent,
                 received, rkArgs, rkOut, refreshed>>

SendRoomWrite(p) ==
  /\ pc[p] = "send_room_write"
  /\ draft = "main"
  /\ rooms' = Put(rooms, getRoomKey(req[p].from, req[p].to),
                  RoomInfo(req[p], loc[p].hasExisting, loc[p].existingRoom))
  /\ Respond(p, req[p], 201, <<loc[p].newMessage.id>>)
  /\ UNCHANGED <<draft, clock, users, active, online, msgs, appended, nsent,
                 received, rkArgs, rkOut, refreshed>>

----------------------------------------------------------------------------
(* main draft: GET /api/messages *)

\* one step of messages.sort((a, b) => a.time - b.time): m goes after the
\* entries that are not later than it (the sort is stable)
InsertByTime(sorted, m) ==
  LET k == Cardinality({i \in 1..Len(sorted) : sorted[i].time <= m.time})
  IN SubSeq(sorted, 1, k) \o <<m>> \o SubSeq(sorted, k + 1, Len(sorted))

RECURSIVE SortByTime(_)
SortByTime(s) ==
  IF s = << >> THEN << >>
  ELSE InsertByTime(SortByTime(SubSeq(s, 1, Len(s) - 1)), s[Len(s)])

\* the cut without the sort
LimitedMessagesUnsorted(messages) == SliceLast(messages, FetchLimit)

\* sortedMessages.slice(-200)
LimitedMessages(messages) == SliceLast(SortByTime(messages), FetchLimit)

\* !roomInfo || !roomInfo.participants.includes(currentUser)
NoAccess(roomId, currentUser) ==
  \/ ~Has(rooms, roomId)
  \/ currentUser \notin {rooms[roomId].participants[1], rooms[roomId].participants[2]}

WindowBegin(p, user, roomId) ==
  /\ Idle(p)
  /\ draft = "main"
  /\ LET r == [op |-> "window", now |-> clock, user |-> user,
               roomId |-> IF Truthy(roomId) THEN roomId ELSE Public]
     IN IF ~Truthy(user)
          THEN Respond(p, r, 400, << >>)
          ELSE IF r.roomId # Public /\ NoAccess(r.roomId, user)
            THEN Respond(p, r, 403, << >>)
            ELSE Goto(p, r, "window_read", [i |-> 0, messages |-> << >>])
  /\ UNCHANGED <<draft, clock, users, active, online, msgs, rooms, appended, nsent,
                 received, rkArgs, rkOut, refreshed>>

\* one pass of the loop over the last 7 days, newest day first; the last pass
\* sorts, cuts and returns
WindowRead(p) ==
  /\ pc[p] = "window_read"
  /\ draft = "main"
  /\ LET i == loc[p].i
         date == DayOf(req[p].now - i * DayMs)
         messages == loc[p].messages \o GetList(msgs, <<req[p].roomId, date>>)
     IN IF i + 1 < WindowDays
          THEN Goto(p, req[p], "window_read", [i |-> i + 1, messages |-> messages])
          ELSE Respond(p, req[p], 200, LimitedMessages(messages))
  /\ UNCHANGED <<draft, clock, users, active, online, msgs, rooms, appended, nsent,
                 received, rkArgs, rkOut, refreshed>>

----------------------------------------------------------------------------
(* main draft GET /api/users, incr draft GET /api/get-active-users *)

RECURSIVE SortedNames(_)
\* the names of a key listing, which the store returns in key order
SortedNames(S) ==
  IF S = {} THEN << >>
  ELSE LET least == CHOOSE x \in S : \A y \in S \ {x} : StrLess(x, y)
       IN <<least>> \o SortedNames(S \ {least})

ActiveUsers == SortedNames({u \in DOMAIN active : clock < active[u].expires})

ListUsers(p) ==
  /\ Idle(p)
  /\ draft \in {"main", "incr"}
  /\ Respond(p, [op |-> "users", now |-> clock], 200, ActiveUsers)
  /\ UNCHANGED <<draft, clock, users, active, online, msgs, rooms, appended, nsent,
                 received, rkArgs, rkOut, refreshed>>

----------------------------------------------------------------------------
(* incr draft: POST /api/send *)

IncrNewMessage(r, rnd) ==
  [ id |-> <<r.from, r.now, rnd>>,
    from |-> r.from,
    to |-> r.to,
    roomId |-> messageRoomId(r.from, r.to),
    message |-> SliceTo(r.message, BodyMax),
    time |-> r.now ]

\* `messages:${messageRoomId}:${day}`
IncrDayKey(r) == << messageRoomId(r.from, r.to), DayOf(r.now) >>

IncrSendBegin(p, from, message, to) ==
  /\ Idle(p)
  /\ draft = "incr"
  /\ LET r == [op |-> "send", now |-> clock, from |-> from, message |-> message,
               to |-> to]
         lastActive == GetActive(from)
     IN IF ~Truthy(from) \/ ~Truthy(message)
          THEN Respond(p, r, 400, << >>)
          ELSE IF NotLoggedIn(lastActive)
            THEN Respond(p, r, 403, << >>)
            ELSE Goto(p, r, "isend_refresh", [lastActive |-> lastActive])
  /\ UNCHANGED <<draft, clock, users, active, online, msgs, rooms, appended, nsent,
                 received, rkArgs, rkOut, refreshed>>

IncrSendRefresh(p) ==
  /\ pc[p] = "isend_refresh"
  /\ draft = "incr"
  /\ active' = PutActive(req[p].from, req[p].now)
  /\ refreshed' = Put(refreshed, req[p].from, clock)
  /\ nsent' = nsent + 1
  /\ Goto(p, req[p], "isend_read",
          [lastActive |-> loc[p].lastActive,
           newMessage |-> IncrNewMessage(req[p], nsent + 1)])
  /\ UNCHANGED <<draft, clock, users, online, msgs, rooms, appended, received, rkArgs, rkOut>>

IncrSendRead(p) ==
  /\ pc[p] = "isend_read"
  /\ draft = "incr"
  /\ Goto(p, req[p], "isend_write",
          [lastActive |-> loc[p].lastActive, newMessage |-> loc[p].newMessage,
           existingMessages |-> GetList(msgs, IncrDayKey(req[p]))])
  /\ UNCHANGED <<draft, clock, users, active, online, msgs, rooms, appended, nsent,
                 received, rkArgs, rkOut, refreshed>>

IncrSendWrite(p) ==
  /\ pc[p] = "isend_write"
  /\ draft = "incr"
  /\ msgs' = Put(msgs, IncrDayKey(req[p]),
                 PushTrimmed(loc[p].existingMessages, loc[p].newMessage))
  /\ appended' = Put(appended, IncrDayKey(req[p]),
                     Append(GetList(appended, IncrDayKey(req[p])), loc[p].newMessage))
  /\ Respond(p, req[p], 201, << >>)
  /\ UNCHANGED <<draft, clock, users, active, online, rooms, nsent, received, rkArgs, rkOut, refreshed>>

----------------------------------------------------------------------------
(* incr draft: GET /api/get-messages *)

\* existingMessages.findIndex(msg => msg.id === lastId), 0 when there is none
FindIndex(existingMessages, lastId) ==
  IF \E i \in 1..Len(existingMessages) : existingMessages[i].id = lastId
    THEN CHOOSE i \in 1..Len(existingMessages) :
           /\ existingMessages[i].id = lastId
           /\ \A j \in 1..(i - 1) : existingMessages[j].id # lastId
    ELSE 0

\* the slice taken from the cursor's own position: slice(lastIndex)
NewMessagesFromCursor(existingMessages, lastId) ==
  IF Truthy(lastId) /\ FindIndex(existingMessages, lastId) # 0
    THEN SubSeq(existingMessages, FindIndex(existingMessages, lastId),
                Len(existingMessages))
    ELSE existingMessages

\* newMessages for one room
NewMessages(existingMessages, lastId) ==
  IF Truthy(lastId) /\ FindIndex(existingMessages, lastId) # 0
    THEN SubSeq(existingMessages, FindIndex(existingMessages, lastId) + 1,
                Len(existingMessages))
    ELSE existingMessages

\* caller is who asks; the handler takes no user parameter and never reads it.
\* lastIds maps each room id asked for to its lastId_<room> parameter.
IncrFetchBegin(p, caller, roomIds, lastIds) ==
  /\ Idle(p)
  /\ draft = "incr"
  /\ LET r == [op |-> "incr", now |-> clock, caller |-> caller, roomIds |-> roomIds,
               lastIds |-> lastIds]
     IN IF roomIds = << >>
          THEN Respond(p, r, 200, EmptyMap)
          ELSE Goto(p, r, "incr_read", [i |-> 1, allMessages |-> EmptyMap])
  /\ UNCHANGED <<draft, clock, users, active, online, msgs, rooms, appended, nsent,
                 received, rkArgs, rkOut, refreshed>>

IncrFetchRead(p) ==
  /\ pc[p] = "incr_read"
  /\ draft = "incr"
  /\ LET i == loc[p].i
         roomId == req[p].roomIds[i]
         existingMessages == GetList(msgs, <<roomId, DayOf(req[p].now)>>)
         allMessages == Put(loc[p].allMessages, roomId,
                            NewMessages(existingMessages, req[p].lastIds[roomId]))
     IN IF i < Len(req[p].roomIds)
          THEN Goto(p, req[p], "incr_read", [i |-> i + 1, allMessages |-> allMessages])
          ELSE Respond(p, req[p], 200, allMessages)
  /\ UNCHANGED <<draft, clock, users, active, online, msgs, rooms, appended, nsent,
                 received, rkArgs, rkOut, refreshed>>

----------------------------------------------------------------------------
(* main and incr drafts: POST /api/register, POST /api/login *)

\* existingUser is truthy
UserExists(username) == Has(users, username)

RegisterBegin(p, username, password) ==
  /\ Idle(p)
  /\ draft \in {"main", "incr"}
  /\ LET r == [op |-> "register", now |-> clock, username |-> username,
               password |-> password]
     IN IF ~Truthy(username) \/ ~Truthy(password)
          THEN Respond(p, r, 400, << >>)
          ELSE IF ~ValidUsername(username)
            THEN Respond(p, r, 400, << >>)
            ELSE IF Len(password) < PasswordMin
              THEN Respond(p, r, 400, << >>)
              ELSE IF UserExists(username)
                THEN Respond(p, r, 409, << >>)
                ELSE Goto(p, r, "register_put", NoLoc)
  /\ UNCHANGED <<draft, clock, users, active, online, msgs, rooms, appended, nsent,
                 received, rkArgs, rkOut, refreshed>>

RegisterPut(p) ==
  /\ pc[p] = "register_put"
  /\ draft \in {"main", "incr"}
  /\ users' = Put(users, req[p].username,
                  [password |-> req[p].password, created |-> req[p].now,
                   lastActive |-> req[p].now])
  /\ Respond(p, req[p], 201, << >>)
  /\ UNCHANGED <<draft, clock, active, online, msgs, rooms, appended, nsent,
                 received, rkArgs, rkOut, refreshed>>

LoginBegin(p, username, password) ==
  /\ Idle(p)
  /\ draft \in {"main", "incr"}
  /\ LET r == [op |-> "login", now |-> clock, username |-> username,
               password |-> password]
     IN IF ~Truthy(username) \/ ~Truthy(password)
          THEN Respond(p, r, 400, << >>)
          ELSE IF ~Has(users, username) \/ users[username].password # password
            THEN Respond(p, r, 401, << >>)
            ELSE Goto(p, r, "login_put",
                      [userData |-> [users[username] EXCEPT !.lastActive = clock]])
  /\ UNCHANGED <<draft, clock, users, active, online, msgs, rooms, appended, nsent,
                 received, rkArgs, rkOut, refreshed>>

LoginPut(p) ==
  /\ pc[p] = "login_put"
  /\ draft \in {"main", "incr"}
  /\ users' = Put(users, req[p].username, loc[p].userData)
  /\ Respond(p, req[p], 200, << >>)
  /\ UNCHANGED <<draft, clock, active, online, msgs, rooms, appended, nsent,
                 received, rkArgs, rkOut, refreshed>>

----------------------------------------------------------------------------
(* auth draft: POST /api/auth *)

\* hashPassword: the SHA-256 hex digest, taken to be collision-free
hashPassword(password) == <<0>> \o password

\* verifyPassword(password, storedHash)
verifyPassword(password, storedHash) == hashPassword(password) = storedHash

\* put(`status:${username}`, 'online', { expirationTtl: 300 })
PutStatus(username) == Put(online, username, Expiring("online", clock))

AuthBegin(p, username, password) ==
  /\ Idle(p)
  /\ draft = "auth"
  /\ LET r == [op |-> "auth", now |-> clock, username |-> username,
               password |-> password]
     IN IF ~Truthy(username) \/ ~Truthy(password)
          THEN Respond(p, r, 400, << >>)
          ELSE IF Has(users, username)
            THEN IF verifyPassword(password, users[username].password)
                   THEN Goto(p, r, "auth_login_status", NoLoc)
                   ELSE Respond(p, r, 401, << >>)
            ELSE IF ~ValidUsername(username)
                   THEN Respond(p, r, 400, << >>)
                   ELSE Goto(p, r, "auth_put_user", NoLoc)
  /\ UNCHANGED <<draft, clock, users, active, online, msgs, rooms, appended, nsent,
                 received, rkArgs, rkOut, refreshed>>

AuthLoginStatus(p) ==
  /\ pc[p] = "auth_login_status"
  /\ draft = "auth"
  /\ online' = PutStatus(req[p].username)
  /\ refreshed' = Put(refreshed, req[p].username, clock)
  /\ Respond(p, req[p], 200, <<"login">>)
  /\ UNCHANGED <<draft, clock, users, active, msgs, rooms, appended, nsent,
                 received, rkArgs, rkOut>>

AuthPutUser(p) ==
  /\ pc[p] = "auth_put_user"
  /\ draft = "auth"
  /\ users' = Put(users, req[p].username,
                  [username |-> req[p].username,
                   password |-> hashPassword(req[p].password)])
  /\ Goto(p, req[p], "auth_put_status", NoLoc)
  /\ UNCHANGED <<draft, clock, active, online, msgs, rooms, appended, nsent,
                 received, rkArgs, rkOut, refreshed>>

AuthPutStatus(p) ==
  /\ pc[p] = "auth_put_status"
  /\ draft = "auth"
  /\ online' = PutStatus(req[p].username)
  /\ refreshed' = Put(refreshed, req[p].username, clock)
  /\ Respond(p, req[p], 200, <<"register">>)
  /\ UNCHANGED <<draft, clock, users, active, msgs, rooms, appended, nsent,
                 received, rkArgs, rkOut>>

----------------------------------------------------------------------------
(* main draft: GET /api/rooms *)

\* b.lastMessage?.time || 0
LastTime(room) ==
  IF "lastMessage" \in DOMAIN room THEN room.lastMessage.time ELSE 0

\* { ...roomInfo, displayName: otherUser, unreadCount: 0 }
RoomEntry(roomInfo, currentUser) ==
  [ id |-> roomInfo.id,
    participants |-> roomInfo.participants,
    lastMessage |-> roomInfo.lastMessage,
    created |-> roomInfo.created,
    displayName |-> IF roomInfo.participants[1] # currentUser
                      THEN roomInfo.participants[1]
                      ELSE roomInfo.participants[2],
    unreadCount |-> 0 ]

\* the same sort in ascending order of lastMessage time
InsertByLastTimeAscending(sorted, room) ==
  LET k == Cardinality({i \in 1..Len(sorted) : LastTime(sorted[i]) <= LastTime(room)})
  IN SubSeq(sorted, 1, k) \o <<room>> \o SubSeq(sorted, k + 1, Len(sorted))

\* one step of rooms.sort((a, b) => (b.lastMessage?.time || 0) - (a.lastMessage?.time || 0)):
\* room goes after the entries that are not older than it (the sort is stable)
InsertByLastTime(sorted, room) ==
  LET k == Cardinality({i \in 1..Len(sorted) : LastTime(sorted[i]) >= LastTime(room)})
  IN SubSeq(sorted, 1, k) \o <<room>> \o SubSeq(sorted, k + 1, Len(sorted))

RECURSIVE SortByLastTime(_)
SortByLastTime(s) ==
  IF s = << >> THEN << >>
  ELSE InsertByLastTime(SortByLastTime(SubSeq(s, 1, Len(s) - 1)), s[Len(s)])

\* validation and env.CHAT_KV.list({ prefix: 'room:' })
RoomsBegin(p, currentUser) ==
  /\ Idle(p)
  /\ draft = "main"
  /\ LET r == [op |-> "rooms", now |-> clock, user |-> currentUser]
         keys == SortedNames(DOMAIN rooms)
     IN IF ~Truthy(currentUser)
          THEN Respond(p, r, 400, << >>)
          ELSE IF keys = << >>
            THEN Respond(p, r, 200, << >>)
            ELSE Goto(p, r, "rooms_read", [i |-> 1, keys |-> keys, rooms |-> << >>])
  /\ UNCHANGED <<draft, clock, users, active, online, msgs, rooms, appended, nsent,
                 received, rkArgs, rkOut, refreshed>>

\* one pass of the loop over the listed keys; the last pass sorts and returns
RoomsRead(p) ==
  /\ pc[p] = "rooms_read"
  /\ draft = "main"
  /\ LET i == loc[p].i
         key == loc[p].keys[i]
         found == IF Has(rooms, key)
                       /\ req[p].user \in {rooms[key].participants[1],
                                           rooms[key].participants[2]}
                    THEN Append(loc[p].rooms, RoomEntry(rooms[key], req[p].user))
                    ELSE loc[p].rooms
     IN IF i < Len(loc[p].keys)
          THEN Goto(p, req[p], "rooms_read",
                    [i |-> i + 1, keys |-> loc[p].keys, rooms |-> found])
          ELSE Respond(p, req[p], 200, SortByLastTime(found))
  /\ UNCHANGED <<draft, clock, users, active, online, msgs, rooms, appended, nsent,
                 received, rkArgs, rkOut, refreshed>>

----------------------------------------------------------------------------
(* every draft: a route that no handler matches *)

NotFound(p) ==
  /\ Idle(p)
  /\ Respond(p, [op |-> "other", now |-> clock], 404, << >>)
  /\ UNCHANGED <<draft, clock, users, active, online, msgs, rooms, appended, nsent,
                 received, rkArgs, rkOut, refreshed>>

----------------------------------------------------------------------------
(* auth draft: GET /api/users, POST and GET /api/messages, POST /api/offline *)

\* list({ prefix: 'status:' }).keys.map(key => key.name.substring(7))
OnlineUsers == SortedNames({u \in DOMAIN online : clock < online[u].expires})

AuthListUsers(p) ==
  /\ Idle(p)
  /\ draft = "auth"
  /\ Respond(p, [op |-> "users", now |-> clock], 200, OnlineUsers)
  /\ UNCHANGED <<draft, clock, users, active, online, msgs, rooms, appended, nsent,
                 received, rkArgs, rkOut, refreshed>>

\* const message = { id: `${sender}-${timestamp}`, sender, content, timestamp }
AuthMessage(r) ==
  [ id |-> <<r.sender, r.now>>,
    sender |-> r.sender,
    content |-> r.content,
    timestamp |-> r.now ]

\* `messages:${receiver}:${day}`
AuthDayKey(r) == << r.receiver, DayOf(r.now) >>

\* existingMessages.push(message), and no trim
AuthPush(existingMessages, message) == Append(existingMessages, message)

\* validation, then the read of the partition
AuthSendBegin(p, sender, receiver, content) ==
  /\ Idle(p)
  /\ draft = "auth"
  /\ LET r == [op |-> "send", now |-> clock, sender |-> sender,
               receiver |-> receiver, content |-> content]
     IN IF ~Truthy(sender) \/ ~Truthy(receiver) \/ ~Truthy(content)
          THEN /\ Respond(p, r, 400, << >>)
               /\ UNCHANGED nsent
          ELSE /\ nsent' = nsent + 1
               /\ Goto(p, r, "asend_write",
                       [message |-> AuthMessage(r),
                        existingMessages |-> GetList(msgs, AuthDayKey(r))])
  /\ UNCHANGED <<draft, clock, users, active, online, msgs, rooms, appended,
                 received, rkArgs, rkOut, refreshed>>

AuthSendWrite(p) ==
  /\ pc[p] = "asend_write"
  /\ draft = "auth"
  /\ msgs' = Put(msgs, AuthDayKey(req[p]),
                 AuthPush(loc[p].existingMessages, loc[p].message))
  /\ appended' = Put(appended, AuthDayKey(req[p]),
                     Append(GetList(appended, AuthDayKey(req[p])), loc[p].message))
  /\ Respond(p, req[p], 201, << >>)
  /\ UNCHANGED <<draft, clock, users, active, online, rooms, nsent, received, rkArgs, rkOut, refreshed>>

\* GET /api/messages?room=...: today's partition of the room, to any caller
AuthFetch(p, room) ==
  /\ Idle(p)
  /\ draft = "auth"
  /\ Respond(p, [op |-> "fetch", now |-> clock, room |-> room], 200,
             GetList(msgs, <<room, DayOf(clock)>>))
  /\ UNCHANGED <<draft, clock, users, active, online, msgs, rooms, appended, nsent,
                 received, rkArgs, rkOut, refreshed>>

\* if (username) await env.CHAT_KV.delete(`status:${username}`)
Offline(p, username) ==
  /\ Idle(p)
  /\ draft = "auth"
  /\ online' = IF Truthy(username) THEN Del(online, username) ELSE online
  /\ Respond(p, [op |-> "offline", now |-> clock, username |-> username], 200, << >>)
  /\ UNCHANGED <<draft, clock, users, active, msgs, rooms, appended, nsent,
                 received, rkArgs, rkOut, refreshed>>

----------------------------------------------------------------------------
(* Specification: the room-id derivations on bounded usernames *)

InitRoomKey ==
  /\ draft = "main"
  /\ Fresh
  /\ rkArgs \in Names \X Names \X Names \X Names
  /\ rkOut = << >>

NextRoomKey == Derive

SpecRoomKey == InitRoomKey /\ [][NextRoomKey]_vars

\* C4: room ids that are equal were derived from the same pair of usernames:
\* for registrable names a, b, c, d, id(a, b) = id(c, d) implies {a, b} = {c, d},
\* for getRoomKey and for the inline private-room id.
C4_RoomIdDeterminesPair ==
  (/\ Len(rkOut) = 6
   /\ \A i \in 1..4 : ValidUsername(rkArgs[i]))
  => /\ rkOut[1] = rkOut[3] => {rkArgs[1], rkArgs[2]} = {rkArgs[3], rkArgs[4]}
     /\ rkOut[4] = rkOut[6] => {rkArgs[1], rkArgs[2]} = {rkArgs[3], rkArgs[4]}

\* C9: deriving the room id for (u1, u2) and for (u2, u1) gives the same id,
\* with getRoomKey and with the inline private-room id.
C9_OrderIndependent ==
  Len(rkOut) = 6 => rkOut[1] = rkOut[2] /\ rkOut[4] = rkOut[5]

\* the derivation was applied to two different names given larger one first
C9_Witness ==
  /\ Len(rkOut) = 6
  /\ StrLess(rkArgs[2], rkArgs[1])
  /\ rkOut[1] = rkArgs[2] \o <<ChUnderscore>> \o rkArgs[1]

----------------------------------------------------------------------------
(* Specification: presence, private rooms and access, one request at a time *)

Alice == <<97, 97>>
Bob == <<98, 98>>
Carol == <<99, 99>>
Hi == <<104, 105>>
\* a message longer than the stored body
LongMessage == [i \in 1..(BodyMax + 1) |-> 97]

ChatUsers == {Alice, Bob, Carol}
ChatSenders == {Alice}
ChatRecipients == {Absent, Carol}
\* a private message is the long one, a public message the short one
ChatMessages(to) == IF to = Absent THEN {Hi} ELSE {LongMessage}
\* half the presence TTL
ChatStepMs == TtlMs \div 2
MaxChatTicks == 2
MaxChatSends == 2

InitChat ==
  /\ draft \in {"main", "incr"}
  /\ Fresh
  /\ rkArgs = << >>
  /\ rkOut = << >>

ChatTick ==
  /\ clock + ChatStepMs <= MaxChatTicks * ChatStepMs
  /\ Tick(ChatStepMs)

ChatActive == \E u \in {Alice, Bob, Absent} : Active(1, u)

ChatSendBegin ==
  /\ nsent < MaxChatSends
  /\ \E from \in ChatSenders, to \in ChatRecipients :
       \E m \in ChatMessages(to),
          roomId \in {Absent} \cup {getRoomKey(from, to) : x \in {to} \ {Absent}} :
          SendBegin(1, from, m, to, roomId)

ChatIncrSendBegin ==
  /\ nsent < MaxChatSends
  /\ \E from \in ChatSenders, to \in ChatRecipients :
       \E m \in ChatMessages(to) : IncrSendBegin(1, from, m, to)

ChatRooms ==
  {Public} \cup {getRoomKey(a, b) : a \in ChatSenders, b \in ChatRecipients \ {Absent}}
           \cup {messageRoomId(a, b) : a \in ChatSenders, b \in ChatRecipients \ {Absent}}

ChatWindowBegin ==
  \E u \in {Alice, Bob}, roomId \in {Absent} \cup ChatRooms : WindowBegin(1, u, roomId)

ChatIncrFetchBegin ==
  \E u \in {Alice, Bob}, roomId \in ChatRooms :
     IncrFetchBegin(1, u, <<roomId>>, [r \in {roomId} |-> Absent])

NextChat ==
  \/ ChatTick
  \/ ChatActive
  \/ ChatSendBegin
  \/ SendRefresh(1)
  \/ SendRead(1)
  \/ SendWrite(1)
  \/ SendRoomRead(1)
  \/ SendRoomWrite(1)
  \/ ChatWindowBegin
  \/ WindowRead(1)
  \/ ListUsers(1)
  \/ ChatIncrSendBegin
  \/ IncrSendRefresh(1)
  \/ IncrSendRead(1)
  \/ IncrSendWrite(1)
  \/ ChatIncrFetchBegin
  \/ IncrFetchRead(1)

SpecChat == InitChat /\ [][NextChat]_vars

----------------------------------------------------------------------------
(* Specification: one room's message log over several days, one request at a time *)

MaxLogDays == 7
MaxLogSends == 3
LogMessages == {Hi}
\* an id no message has
UnknownId == <<Bob, 0, 0>>

InitLog ==
  /\ draft \in {"main", "incr"}
  /\ Fresh
  /\ rkArgs = << >>
  /\ rkOut = << >>

LogTick ==
  /\ clock + DayMs <= MaxLogDays * DayMs
  /\ Tick(DayMs)

\* later the same day, once a day
LogLater ==
  /\ clock % DayMs = 0
  /\ Tick(ChatStepMs)

LogActive == Active(1, Alice)

LogSendBegin ==
  /\ nsent < MaxLogSends
  /\ \E m \in LogMessages : SendBegin(1, Alice, m, Absent, Absent)

LogIncrSendBegin ==
  /\ nsent < MaxLogSends
  /\ \E m \in LogMessages : IncrSendBegin(1, Alice, m, Absent)

LogWindowBegin == WindowBegin(1, Alice, Absent)

\* every id ever pushed into a partition of the room
PushedIds(roomId) ==
  UNION { {appended[k][i].id : i \in 1..Len(appended[k])} :
          k \in {x \in DOMAIN appended : x[1] = roomId} }

LogIncrFetchBegin ==
  \E lastId \in {Absent, UnknownId} \cup PushedIds(Public) :
     IncrFetchBegin(1, Alice, <<Public>>, [r \in {Public} |-> lastId])

NextLog ==
  \/ LogTick
  \/ LogLater
  \/ LogActive
  \/ LogSendBegin
  \/ SendRefresh(1)
  \/ SendRead(1)
  \/ SendWrite(1)
  \/ LogWindowBegin
  \/ WindowRead(1)
  \/ LogIncrSendBegin
  \/ IncrSendRefresh(1)
  \/ IncrSendRead(1)
  \/ IncrSendWrite(1)
  \/ LogIncrFetchBegin
  \/ IncrFetchRead(1)

SpecLog == InitLog /\ [][NextLog]_vars

----------------------------------------------------------------------------
(* Claims about sending, private rooms and access *)

Done(p, op) == pc[p] = "done" /\ req[p].op = op

Ids(s) == {s[i].id : i \in 1..Len(s)}

\* every message ever pushed, in any partition
Pushed == UNION { {appended[k][i] : i \in 1..Len(appended[k])} : k \in DOMAIN appended }

\* the messages a sent b with only from, to and message in the request
SentPlainly(a, b) ==
  {m \in Pushed : m.from = a /\ m.to = b /\ m.roomId = Public}

\* C1: once a's send {from: a, to: b, message: m} has returned success, the room
\* record of getRoomKey(a, b) exists with lastMessage.content the first
\* PreviewMax characters of m, and a window fetch by a on that room id returns
\* the message; it returns exactly that one message when it is the pair's first.
C1_SendThenFetch ==
  \A p \in Procs :
    /\ ( /\ Done(p, "send") /\ draft = "main" /\ resp[p].status = 201
         /\ IsPrivate(req[p]) /\ req[p].roomId = Absent )
       => /\ Has(rooms, getRoomKey(req[p].from, req[p].to))
          /\ rooms[getRoomKey(req[p].from, req[p].to)].lastMessage.content
               = SliceTo(req[p].message, PreviewMax)
    /\ \A b \in ChatUsers :
         ( /\ Done(p, "window")
           /\ b # req[p].user
           /\ req[p].roomId = getRoomKey(req[p].user, b)
           /\ SentPlainly(req[p].user, b) # {}
           /\ nsent <= FetchLimit
           /\ clock = req[p].now )
         => /\ resp[p].status = 200
            /\ \A m \in SentPlainly(req[p].user, b) : m.id \in Ids(resp[p].data)
            /\ (Cardinality(SentPlainly(req[p].user, b) \cup SentPlainly(b, req[p].user)) = 1
                => Len(resp[p].data) = 1)

\* the participants of a private room: those of its room record in the main
\* draft, those its id was derived from in the incr draft
RoomParticipants(roomId) ==
  IF draft = "main"
    THEN IF Has(rooms, roomId)
           THEN {rooms[roomId].participants[1], rooms[roomId].participants[2]}
           ELSE {}
    ELSE {u \in ChatUsers : \E v \in ChatUsers : roomId = messageRoomId(u, v)}

StoredIn(roomId) ==
  UNION { Ids(msgs[k]) : k \in {x \in DOMAIN msgs : x[1] = roomId} }

\* C2: a fetch (window or incremental) of a private room that holds messages,
\* by a user who is not one of the room's participants, is answered 403 and
\* returns none of the room's messages.
C2_NonMemberRejected ==
  \A p \in Procs :
    /\ ( /\ Done(p, "window")
         /\ req[p].roomId # Public
         /\ StoredIn(req[p].roomId) # {}
         /\ req[p].user \notin RoomParticipants(req[p].roomId) )
       => resp[p].status = 403 /\ resp[p].data = << >>
    /\ ( /\ Done(p, "incr")
         /\ req[p].roomIds # << >>
         /\ req[p].roomIds[1] # Public
         /\ StoredIn(req[p].roomIds[1]) # {}
         /\ req[p].caller \notin RoomParticipants(req[p].roomIds[1]) )
       => /\ resp[p].status = 403
          /\ Ids(resp[p].data[req[p].roomIds[1]]) \cap StoredIn(req[p].roomIds[1]) = {}

\* slot p takes up a request of kind op in this step
Began(p, op) ==
  /\ Idle(p)
  /\ pc'[p] # "idle"
  /\ req'[p].op = op
  /\ <<pc[p], req[p], resp[p]>> # <<pc'[p], req'[p], resp'[p]>>

LivePresence(u) == Has(active, u) /\ clock < active[u].expires

\* C5: a send (with sender and message given) whose sender has no live presence
\* key when the handler looks is answered 403 and writes nothing to the store;
\* and a partition is written only by a send that read a presence key.
C5_SendGatedOnPresence ==
  [][ /\ \A p \in Procs :
           ( /\ Began(p, "send")
             /\ Truthy(req'[p].from) /\ Truthy(req'[p].message)
             /\ ~LivePresence(req'[p].from) )
           => /\ pc'[p] = "done"
              /\ resp'[p].status = 403
              /\ UNCHANGED <<users, active, online, msgs, rooms>>
      /\ msgs' # msgs
           => \E p \in Procs :
                 /\ pc[p] \in {"send_write", "isend_write"}
                 /\ pc'[p] # pc[p]
                 /\ Truthy(loc[p].lastActive)
    ]_vars

\* a send was refused after an earlier one was stored
C5_Witness ==
  \E p \in Procs :
     /\ Done(p, "send")
     /\ resp[p].status = 403
     /\ \E m \in Pushed : m.from = req[p].from

\* by the history, u's presence key was written less than 300 s ago
RecentlyRefreshed(u) == Has(refreshed, u) /\ clock - refreshed[u] < TtlMs

Elems(s) == {s[i] : i \in 1..Len(s)}

\* C6: a user is active exactly while less than 300 s have passed since its last
\* heartbeat or accepted send: the presence key is live, the active list names
\* the user and its sends are admitted; after 300 s the key is gone, the list
\* omits the user and its send is refused.
C6_PresenceTtl ==
  /\ \A u \in ChatUsers : LivePresence(u) <=> RecentlyRefreshed(u)
  /\ \A p \in Procs :
       /\ (Done(p, "users") /\ req[p].now = clock)
          => \A u \in ChatUsers : u \in Elems(resp[p].data) <=> RecentlyRefreshed(u)
       /\ (Done(p, "active") /\ resp[p].status = 200 /\ req[p].now = clock)
          => LivePresence(req[p].username)
       /\ (Done(p, "send") /\ resp[p].status = 403 /\ req[p].now = clock)
          => ~RecentlyRefreshed(req[p].from)
       /\ (pc[p] \in {"send_refresh", "isend_refresh"} /\ req[p].now = clock)
          => RecentlyRefreshed(req[p].from)

\* the list of active users, asked 300 s after Alice's last heartbeat and
\* less than 300 s after Bob's
C6_Witness ==
  \E p \in Procs :
     /\ Done(p, "users")
     /\ req[p].now = clock
     /\ Has(refreshed, Alice)
     /\ clock - refreshed[Alice] >= TtlMs
     /\ resp[p].data = <<Bob>>

----------------------------------------------------------------------------
(* Claims about the message log *)

IsSuffix(s, t) ==
  /\ Len(s) <= Len(t)
  /\ s = SubSeq(t, Len(t) - Len(s) + 1, Len(t))

\* C3: with sends that do not overlap, every stored partition holds at most
\* MaxStored messages (2000 in the code) and is a suffix of the sequence of all
\* messages pushed into it: the newest is last and only the oldest are dropped.
C3_BoundedSuffix ==
  \A k \in DOMAIN msgs :
    /\ Len(msgs[k]) <= MaxStored
    /\ msgs[k] # << >>
    /\ IsSuffix(msgs[k], appended[k])

\* a partition that has been full and has dropped its oldest message
C3_Witness ==
  \E k \in DOMAIN msgs :
    /\ Len(appended[k]) > MaxStored
    /\ Len(msgs[k]) = MaxStored
    /\ msgs[k][1] # appended[k][1]

\* today's partition of a room at the time of request r
TodaysPartition(roomId, r) == GetList(msgs, <<roomId, DayOf(r.now)>>)

\* C7: an incremental fetch of one room returns, from today's partition only:
\* nothing when the cursor is the id of the last stored message; the messages
\* stored after the cursor's message, in stored order, when the cursor is found;
\* the whole partition when there is no cursor or its id is not in the partition.
C7_IncrementalFetch ==
  \A p \in Procs :
    (Done(p, "incr") /\ Len(req[p].roomIds) = 1)
    => LET roomId == req[p].roomIds[1]
           cursor == req[p].lastIds[roomId]
           part == TodaysPartition(roomId, req[p])
           got == resp[p].data[roomId]
       IN /\ resp[p].status = 200
          /\ (part # << >> /\ cursor = part[Len(part)].id) => got = << >>
          /\ \A i \in 1..Len(part) :
               cursor = part[i].id => got = SubSeq(part, i + 1, Len(part))
          /\ (cursor = Absent \/ cursor \notin Ids(part)) => got = part
          /\ \A j \in 1..Len(got) : DayOf(got[j].time) = DayOf(req[p].now)

\* a fetch whose cursor is found before the end, while an earlier day holds messages
C7_Witness ==
  \E p \in Procs :
     /\ Done(p, "incr")
     /\ LET roomId == req[p].roomIds[1]
            part == TodaysPartition(roomId, req[p])
        IN /\ Len(part) >= 2
           /\ req[p].lastIds[roomId] = part[1].id
           /\ Len(resp[p].data[roomId]) = Len(part) - 1
           /\ \E k \in DOMAIN msgs : k[1] = roomId /\ k[2] < DayOf(req[p].now)

\* the messages stored for the room on the day of request r and the
\* WindowDays - 1 days before it
InWindow(roomId, r) ==
  UNION { Elems(msgs[k]) :
          k \in {x \in DOMAIN msgs :
                   /\ x[1] = roomId
                   /\ x[2] <= DayOf(r.now)
                   /\ x[2] > DayOf(r.now) - WindowDays} }

Min(a, b) == IF a < b THEN a ELSE b

\* C8: a window fetch returns a sequence that is non-decreasing in time, has at
\* most FetchLimit entries (200 in the code), and holds the newest messages of
\* the room's partitions of today and the 6 days before: all of them when they
\* are no more than the limit, and nothing older than that window.
C8_WindowFetch ==
  \A p \in Procs :
    (Done(p, "window") /\ resp[p].status = 200)
    => LET got == resp[p].data
           window == InWindow(req[p].roomId, req[p])
       IN /\ \A i, j \in 1..Len(got) : i < j => got[i].time <= got[j].time
          /\ Len(got) <= FetchLimit
          /\ Len(got) = Min(FetchLimit, Cardinality(window))
          /\ Elems(got) \subseteq window
          /\ Cardinality(Elems(got)) = Len(got)
          /\ \A m \in window \ Elems(got) : \A i \in 1..Len(got) : m.time <= got[i].time

\* a fetch that found more than FetchLimit messages in the window and returned
\* the newest FetchLimit of them, from two different days
C8_Witness ==
  \E p \in Procs :
     /\ Done(p, "window")
     /\ resp[p].status = 200
     /\ Cardinality(InWindow(req[p].roomId, req[p])) > FetchLimit
     /\ Len(resp[p].data) = FetchLimit
     /\ DayOf(resp[p].data[1].time) < DayOf(resp[p].data[FetchLimit].time)

----------------------------------------------------------------------------
(* Specification: registration and login, two requests at a time *)

Password1 == [i \in 1..PasswordMin |-> 49]
Password2 == [i \in 1..PasswordMin |-> 50]
ShortPassword == <<49>>
ShortName == <<97>>

AccountNames == {Alice, ShortName}
AccountPasswords == {Password1, Password2, ShortPassword}
MaxAccountTicks == 1

InitAccounts ==
  /\ draft \in {"main", "incr", "auth"}
  /\ Fresh
  /\ rkArgs = << >>
  /\ rkOut = << >>

AccountTick ==
  /\ clock + ChatStepMs <= MaxAccountTicks * ChatStepMs
  /\ Tick(ChatStepMs)

NextAccounts ==
  \/ AccountTick
  \/ \E p \in Procs, u \in AccountNames, pw \in AccountPasswords : RegisterBegin(p, u, pw)
  \/ \E p \in Procs : RegisterPut(p)
  \/ \E p \in Procs, u \in AccountNames, pw \in AccountPasswords : LoginBegin(p, u, pw)
  \/ \E p \in Procs : LoginPut(p)
  \/ \E p \in Procs, u \in AccountNames, pw \in AccountPasswords : AuthBegin(p, u, pw)
  \/ \E p \in Procs : AuthLoginStatus(p)
  \/ \E p \in Procs : AuthPutUser(p)
  \/ \E p \in Procs : AuthPutStatus(p)

SpecAccounts == InitAccounts /\ [][NextAccounts]_vars

\* slot p holds the success response of a registration
Registered(p) ==
  /\ pc[p] = "done"
  /\ \/ req[p].op = "register" /\ resp[p].status = 201
     \/ req[p].op = "auth" /\ resp[p].data = <<"register">>

\* C10: under any interleaving, no two registrations of one username both
\* return success, and the stored password of a registered user is never
\* changed or removed by a later step.
C10_UniqueImmutable ==
  /\ [](\A p, q \in Procs :
          (p # q /\ Registered(p) /\ Registered(q))
          => req[p].username # req[q].username)
  /\ [][ \A u \in DOMAIN users :
           Has(users', u) /\ users'[u].password = users[u].password ]_vars

----------------------------------------------------------------------------
(* Specification: every handler of every draft, one request at a time *)

MaxReqTicks == 2
MaxReqSends == 1
MaxAuthSends == 3

\* <<username, password>> of the account requests
ReqRegistrations ==
  { <<Alice, Password1>>, <<Alice, ShortPassword>>, <<ShortName, Password1>>,
    <<Absent, Password1>> }
ReqLogins == { <<Alice, Password1>>, <<Alice, Password2>>, <<Absent, Password1>> }
ReqAuths ==
  { <<Alice, Password1>>, <<Alice, Password2>>, <<Bob, Password1>>,
    <<ShortName, Password1>>, <<Absent, Password1>> }
\* <<from, to>> of the send requests
ReqSends == { <<Alice, Absent>>, <<Alice, Carol>>, <<Absent, Absent>> }
\* <<user, roomId>> of the window fetches
ReqWindows ==
  { <<Absent, Absent>>, <<Alice, getRoomKey(Alice, Carol)>>,
    <<Bob, getRoomKey(Alice, Carol)>> }

InitRequests ==
  /\ draft \in {"main", "incr", "auth"}
  /\ Fresh
  /\ rkArgs = << >>
  /\ rkOut = << >>

ReqTick ==
  /\ clock + ChatStepMs <= MaxReqTicks * ChatStepMs
  /\ Tick(ChatStepMs)

ReqRegisterBegin == \E x \in ReqRegistrations : RegisterBegin(1, x[1], x[2])

ReqLoginBegin == \E x \in ReqLogins : LoginBegin(1, x[1], x[2])

ReqAuthBegin == \E x \in ReqAuths : AuthBegin(1, x[1], x[2])

ReqActive == \E u \in {Alice, Absent} : Active(1, u)

ReqSendBegin ==
  /\ nsent < MaxReqSends
  /\ \E x \in ReqSends : SendBegin(1, x[1], Hi, x[2], Absent)

ReqIncrSendBegin ==
  /\ nsent < MaxReqSends
  /\ \E x \in ReqSends : IncrSendBegin(1, x[1], Hi, x[2])

ReqWindowBegin == \E x \in ReqWindows : WindowBegin(1, x[1], x[2])

ReqRoomsBegin == \E u \in {Alice, Absent} : RoomsBegin(1, u)

ReqIncrFetchBegin ==
  IncrFetchBegin(1, Bob, <<Public>>, [r \in {Public} |-> Absent])

ReqAuthSendBegin ==
  /\ nsent < MaxAuthSends
  /\ \E sender \in {Alice, Absent} : AuthSendBegin(1, sender, Bob, Hi)

ReqAuthFetch == AuthFetch(1, Bob)

ReqOffline == \E u \in {Alice, Absent} : Offline(1, u)

NextRequests ==
  \/ ReqTick
  \/ ReqRegisterBegin
  \/ RegisterPut(1)
  \/ ReqLoginBegin
  \/ LoginPut(1)
  \/ ReqActive
  \/ ListUsers(1)
  \/ ReqSendBegin
  \/ SendRefresh(1)
  \/ SendRead(1)
  \/ SendWrite(1)
  \/ SendRoomRead(1)
  \/ SendRoomWrite(1)
  \/ ReqWindowBegin
  \/ WindowRead(1)
  \/ ReqRoomsBegin
  \/ RoomsRead(1)
  \/ ReqIncrSendBegin
  \/ IncrSendRefresh(1)
  \/ IncrSendRead(1)
  \/ IncrSendWrite(1)
  \/ ReqIncrFetchBegin
  \/ IncrFetchRead(1)
  \/ ReqAuthBegin
  \/ AuthLoginStatus(1)
  \/ AuthPutUser(1)
  \/ AuthPutStatus(1)
  \/ AuthListUsers(1)
  \/ ReqAuthSendBegin
  \/ AuthSendWrite(1)
  \/ ReqAuthFetch
  \/ ReqOffline
  \/ NotFound(1)

SpecRequests == InitRequests /\ [][NextRequests]_vars

\* slot p returns its response in this step
Responds(p) ==
  /\ pc'[p] = "done"
  /\ <<pc[p], req[p], resp[p]>> # <<pc'[p], req'[p], resp'[p]>>

\* C11: a request that is answered with a 4xx status (400, 401, 403, 404, 409)
\* has made no put and no delete: it is answered in the step that took it up,
\* and that step leaves every key of the store as it was.
C11_RejectedWritesNothing ==
  [][ \A p \in Procs :
        (Responds(p) /\ resp'[p].status \in 400..499)
        => /\ Idle(p)
           /\ UNCHANGED <<users, active, online, msgs, rooms>> ]_vars

\* a registration refused with 409 while the store holds the user and a message
C11_Witness ==
  \E p \in Procs :
     /\ Done(p, "register")
     /\ resp[p].status = 409
     /\ msgs # EmptyMap

\* C12: right after a login has returned success the user's presence key
\* exists (active:<user> in the main and incr drafts, status:<user> in the auth
\* draft), so a send by a user who logged in less than 300 s ago is not
\* refused as inactive.
C12_LoginCreatesPresence ==
  \A p \in Procs :
    /\ (Done(p, "login") /\ resp[p].status = 200 /\ req[p].now = clock)
       => LivePresence(req[p].username)
    /\ (Done(p, "auth") /\ resp[p].data = <<"login">> /\ req[p].now = clock)
       => Has(online, req[p].username)
    /\ ( /\ Done(p, "send") /\ draft \in {"main", "incr"}
         /\ resp[p].status = 403
         /\ req[p].now = clock
         /\ Has(users, req[p].from)
         /\ users[req[p].from].lastActive > users[req[p].from].created )
       => clock - users[req[p].from].lastActive >= TtlMs

\* C16: an offline request for u is answered with success and leaves u without
\* a presence key and out of the list of online users; when u had no key (a
\* repeated request, or a user who never had one) the store is left unchanged;
\* and no other user's presence key is touched.
C16_OfflineIdempotent ==
  [][ \A p \in Procs :
        (Responds(p) /\ req'[p].op = "offline" /\ Truthy(req'[p].username))
        => /\ resp'[p].status = 200
           /\ ~Has(online', req'[p].username)
           /\ req'[p].username \notin Elems(OnlineUsers')
           /\ \A v \in DOMAIN online \ {req'[p].username} :
                 Has(online', v) /\ online'[v] = online[v]
           /\ DOMAIN online' \subseteq DOMAIN online
           /\ ~Has(online, req'[p].username) => online' = online
           /\ UNCHANGED <<users, active, msgs, rooms>> ]_vars

\* Alice, whose presence key was written less than 300 s ago, has gone offline
\* while Bob is still online
C16_Witness ==
  \E p \in Procs :
     /\ Done(p, "offline")
     /\ req[p].username = Alice
     /\ RecentlyRefreshed(Alice)
     /\ ~Has(online, Alice)
     /\ Has(online, Bob)

\* C18: in the auth draft too, every day-partition holds at most MaxStored
\* messages (2000 in the code) after any sequence of POST /api/messages sends.
C18_AuthPartitionBounded ==
  draft = "auth" => \A k \in DOMAIN msgs : Len(msgs[k]) <= MaxStored

----------------------------------------------------------------------------
(* Specification: room records and room listing of the main draft, one request at a time *)

MaxRoomTicks == 2
MaxRoomSends == 3

\* <<from, to, roomId>> of the send requests: private sends of three pairs, and
\* a send of Bob that names the room of Alice and Carol
RoomSends ==
  { <<Alice, Bob, Absent>>, <<Alice, Carol, Absent>>, <<Bob, Carol, Absent>>,
    <<Bob, Absent, getRoomKey(Alice, Carol)>> }

InitRooms ==
  /\ draft = "main"
  /\ Fresh
  /\ rkArgs = << >>
  /\ rkOut = << >>

RoomTick ==
  /\ clock + ChatStepMs <= MaxRoomTicks * ChatStepMs
  /\ Tick(ChatStepMs)

RoomActive == \E u \in {Alice, Bob} : Active(1, u)

RoomSendBegin ==
  /\ nsent < MaxRoomSends
  /\ \E x \in RoomSends : SendBegin(1, x[1], Hi, x[2], x[3])

RoomRoomsBegin == \E u \in {Alice, Carol} : RoomsBegin(1, u)

NextRooms ==
  \/ RoomTick
  \/ RoomActive
  \/ RoomSendBegin
  \/ SendRefresh(1)
  \/ SendRead(1)
  \/ SendWrite(1)
  \/ SendRoomRead(1)
  \/ SendRoomWrite(1)
  \/ RoomRoomsBegin
  \/ RoomsRead(1)

SpecRooms == InitRooms /\ [][NextRooms]_vars

\* the keys of the room records that name u as a participant
RoomsOf(u) ==
  {k \in DOMAIN rooms : u \in {rooms[k].participants[1], rooms[k].participants[2]}}

\* C15: the room listing for a user returns the stored room records that name
\* the user as a participant, each once and no others, in descending order of
\* lastMessage time, records without a last message last.
C15_RoomListing ==
  \A p \in Procs :
    (Done(p, "rooms") /\ resp[p].status = 200)
    => LET got == resp[p].data
           mine == RoomsOf(req[p].user)
       IN /\ Len(got) = Cardinality(mine)
          /\ {got[i].id : i \in 1..Len(got)} = {rooms[k].id : k \in mine}
          /\ \A i \in 1..Len(got) :
               \E k \in mine :
                  /\ got[i].id = rooms[k].id
                  /\ got[i].participants = rooms[k].participants
                  /\ got[i].lastMessage = rooms[k].lastMessage
                  /\ got[i].created = rooms[k].created
          /\ \A i, j \in 1..Len(got) :
               i < j => /\ LastTime(got[i]) >= LastTime(got[j])
                        /\ ("lastMessage" \notin DOMAIN got[i]
                              => "lastMessage" \notin DOMAIN got[j])

\* a listing of two rooms that the sort has put in the reverse of key order,
\* while a room of two other users is stored
C15_Witness ==
  \E p \in Procs :
     /\ Done(p, "rooms")
     /\ Len(resp[p].data) = 2
     /\ StrLess(resp[p].data[2].id, resp[p].data[1].id)
     /\ LastTime(resp[p].data[1]) > LastTime(resp[p].data[2])
     /\ DOMAIN rooms \ RoomsOf(req[p].user) # {}

\* C20: every message stored in a partition of a room id that has a room
\* record was sent by one of that record's two participants.
C20_OnlyParticipantsWrite ==
  \A k \in DOMAIN msgs :
    Has(rooms, k[1])
    => \A i \in 1..Len(msgs[k]) :
          msgs[k][i].from \in {rooms[k[1]].participants[1], rooms[k[1]].participants[2]}

----------------------------------------------------------------------------
(* Specification: overlapping sends of the main and incr drafts *)

MaxRaceDays == 1
MaxRaceSends == 3

InitRace ==
  /\ draft \in {"main", "incr"}
  /\ Fresh
  /\ rkArgs = << >>
  /\ rkOut = << >>

\* the next day
RaceTick ==
  /\ clock + DayMs <= MaxRaceDays * DayMs
  /\ Tick(DayMs)

\* later the same day, once a day
RaceLater ==
  /\ clock % DayMs = 0
  /\ Tick(ChatStepMs)

RaceActive == Active(1, Alice)

RaceSendBegin ==
  /\ nsent < MaxRaceSends
  /\ \E p \in Procs, to \in {Absent, Carol} :
        SendBegin(p, Alice, Hi, to, IF to = Absent THEN Absent ELSE getRoomKey(Alice, to))

RaceIncrSendBegin ==
  /\ nsent < MaxRaceSends
  /\ \E p \in Procs, to \in {Absent, Carol} : IncrSendBegin(p, Alice, Hi, to)

NextRace ==
  \/ RaceTick
  \/ RaceLater
  \/ RaceActive
  \/ RaceSendBegin
  \/ \E p \in Procs : SendRefresh(p)
  \/ \E p \in Procs : SendRead(p)
  \/ \E p \in Procs : SendWrite(p)
  \/ \E p \in Procs : SendRoomRead(p)
  \/ \E p \in Procs : SendRoomWrite(p)
  \/ RaceIncrSendBegin
  \/ \E p \in Procs : IncrSendRefresh(p)
  \/ \E p \in Procs : IncrSendRead(p)
  \/ \E p \in Procs : IncrSendWrite(p)

SpecRace == InitRace /\ [][NextRace]_vars

\* C13: once a room record has been written it stays, and its `created` value
\* stays that of the first write, under any interleaving of private sends.
C13_CreatedPreserved ==
  [][ \A k \in DOMAIN rooms :
        Has(rooms', k) /\ rooms'[k].created = rooms[k].created ]_vars

\* slot p reads, or writes back, the partition of its send in this step
ReadStep(p) == pc[p] \in {"send_read", "isend_read"} /\ pc'[p] # pc[p]
WriteStep(p) == pc[p] \in {"send_write", "isend_write"} /\ pc'[p] # pc[p]

\* the partition key of the send in slot p
SendKey(p) == IF draft = "main" THEN DayKey(req[p]) ELSE IncrDayKey(req[p])

\* the messages that the trim drops from a list that was read
Evicted(existingMessages) ==
  IF Len(existingMessages) < MaxStored THEN {}
  ELSE Elems(SubSeq(existingMessages, 1, Len(existingMessages) + 1 - MaxStored))

\* C14: a send reads the whole stored partition and its write-back keeps the
\* new message (so the last of any overlapping writers always leaves its own
\* message stored); the only stored messages a write-back drops are those the
\* trim evicts and those that were written after this send's read, that is by
\* sends that overlap it; and it leaves every other partition as it was.
C14_BoundedLoss ==
  [][ \A p \in Procs :
        /\ ReadStep(p) => loc'[p].existingMessages = GetList(msgs, SendKey(p))
        /\ WriteStep(p)
           => /\ Has(msgs', SendKey(p))
              /\ msgs'[SendKey(p)][Len(msgs'[SendKey(p)])] = loc[p].newMessage
              /\ \A m \in Elems(GetList(msgs, SendKey(p))) \ Elems(msgs'[SendKey(p)]) :
                    \/ m \notin Elems(loc[p].existingMessages)
                    \/ m \in Evicted(loc[p].existingMessages)
              /\ \A k \in DOMAIN msgs \ {SendKey(p)} :
                    Has(msgs', k) /\ msgs'[k] = msgs[k] ]_vars

\* of three sends to one partition the last two overlapped: the message stored
\* before them is kept and one of theirs is lost
C14_Witness ==
  /\ \A p \in Procs : Idle(p)
  /\ \E k \in DOMAIN msgs :
       /\ Len(appended[k]) = 3
       /\ msgs[k] = <<appended[k][1], appended[k][3]>>
       /\ \E k2 \in DOMAIN msgs : k2 # k

NonDecreasingTime(s) == \A i, j \in 1..Len(s) : i < j => s[i].time <= s[j].time

\* C17: when a send's read and write-back of a partition have no other send's
\* read or write of that partition in between, a partition whose messages are
\* in non-decreasing time order is still in that order after the write-back.
C17_PartitionTimeOrder ==
  [][ \A p \in Procs :
        ( /\ WriteStep(p)
          /\ draft = "main"
          /\ GetList(msgs, SendKey(p)) = loc[p].existingMessages
          /\ \A q \in Procs \ {p} :
                ~(pc[q] = "send_write" /\ SendKey(q) = SendKey(p))
          /\ NonDecreasingTime(GetList(msgs, SendKey(p))) )
        => NonDecreasingTime(msgs'[SendKey(p)]) ]_vars

----------------------------------------------------------------------------
(* Specification: a client polling the public room of the incr draft while sends overlap *)

MaxPollSends == 2

InitPoll ==
  /\ draft = "incr"
  /\ Fresh
  /\ rkArgs = << >>
  /\ rkOut = << >>

\* later the same day, once
PollLater ==
  /\ clock = 0
  /\ Tick(ChatStepMs)

PollActive == Active(1, Alice)

PollSendBegin ==
  /\ nsent < MaxPollSends
  /\ \E p \in Procs : IncrSendBegin(p, Alice, Hi, Absent)

\* the cursor of the client: the id of the last message it has received
Cursor == IF received = << >> THEN Absent ELSE received[Len(received)].id

\* the client polls the public room with its cursor, one poll at a time
PollBegin ==
  /\ \A q \in Procs : req[q].op = "incr" => pc[q] = "idle"
  /\ \E p \in Procs : IncrFetchBegin(p, Bob, <<Public>>, [r \in {Public} |-> Cursor])

\* the client takes the response of its poll
ClientReceive(p) ==
  /\ Done(p, "incr")
  /\ received' = received \o resp[p].data[Public]
  /\ pc' = [pc EXCEPT ![p] = "idle"]
  /\ UNCHANGED <<draft, clock, users, active, online, msgs, rooms, req, loc, resp,
                 appended, nsent, refreshed, rkArgs, rkOut>>

NextPoll ==
  \/ PollLater
  \/ PollActive
  \/ PollSendBegin
  \/ \E p \in Procs : IncrSendRefresh(p)
  \/ \E p \in Procs : IncrSendRead(p)
  \/ \E p \in Procs : IncrSendWrite(p)
  \/ PollBegin
  \/ \E p \in Procs : IncrFetchRead(p)
  \/ \E p \in Procs : ClientReceive(p)

SpecPoll == InitPoll /\ [][NextPoll]_vars

\* C19: with all polls on one day and no more than MaxStored (2000) messages
\* appended, after every poll the client has received every message appended
\* to today's partition so far, each once and in the order they were stored.
C19_PollingComplete ==
  [][ \A p \in Procs :
        ( /\ pc[p] = "incr_read" /\ pc'[p] = "done"
          /\ DayOf(req[p].now) = 0
          /\ Len(GetList(appended, <<Public, 0>>)) <= MaxStored )
        => received \o resp'[p].data[Public] = GetList(appended, <<Public, 0>>) ]_vars

----------------------------------------------------------------------------
(* Claims about who can be active and where messages are stored *)

\* C21: a presence key active:<u> exists only if the user record user:<u>
\* exists, and so the sender of every stored message is a registered user.
C21_OnlyRegisteredActive ==
  draft \in {"main", "incr"}
  => /\ \A u \in DOMAIN active : LivePresence(u) => Has(users, u)
     /\ \A k \in DOMAIN msgs :
          \A i \in 1..Len(msgs[k]) : Has(users, msgs[k][i].from)

\* C22: every message stored under messages:<room>:<day> has roomId <room>
\* and a time whose UTC day is <day>; and the message partitions change only
\* in the write-back step of a send, which writes the one partition of that
\* send and leaves every other partition as it was.
C22_MessageInOwnPartition ==
  /\ [](\A k \in DOMAIN msgs :
          \A i \in 1..Len(msgs[k]) :
             msgs[k][i].roomId = k[1] /\ DayOf(msgs[k][i].time) = k[2])
  /\ [][ msgs' # msgs
         => \E p \in Procs :
               /\ WriteStep(p)
               /\ Has(msgs', SendKey(p))
               /\ DOMAIN msgs' = DOMAIN msgs \cup {SendKey(p)}
               /\ \A k \in DOMAIN msgs \ {SendKey(p)} : msgs'[k] = msgs[k] ]_vars

\* messages are stored for a private room and for the public room, and on two
\* days, one of them by a send that was taken up the day before it returned
C22_Witness ==
  /\ \E k \in DOMAIN msgs : k[1] # Public /\ msgs[k] # << >>
  /\ \E k \in DOMAIN msgs : k[1] = Public /\ msgs[k] # << >>
  /\ \E k \in DOMAIN msgs : k[2] = 1 /\ msgs[k] # << >>
  /\ \E p \in Procs :
       /\ Done(p, "send")
       /\ resp[p].status = 201
       /\ DayOf(req[p].now) = 0
       /\ DayOf(clock) = 1
       /\ Has(msgs, SendKey(p))

====
